---- MODULE Spec2Model ----
(***************************************************************************)
(* rlox: the lexer (src/src/scanner.rs) and the recursive-descent parser   *)
(* (src/src/parser.rs) as state machines.                                  *)
(*                                                                         *)
(* A source string is a sequence of characters.  Every character has a     *)
(* UTF-8 width in bytes, because the scanner indexes characters with       *)
(* `chars().nth(current)` but tests the end of input with `source.len()`   *)
(* and cuts lexemes with `&source[start..current]`, both of which count    *)
(* bytes.  A slice whose ends are not character boundaries, and an unwrap  *)
(* of a failed f32 parse, panic: the scan then stops in pc = "panicked".   *)
(***************************************************************************)
EXTENDS Integers, Sequences, FiniteSets, TLC

VARIABLES scanner, pc, parser, result

vars == <<scanner, pc, parser, result>>

\* ------------------------------------------------------------------ bounds
MaxLen == 4

\* -------------------------------------------------------------- characters
QUOTE == "\""
NL == "\n"
SPACE == " "
\* U+00E9, a letter that UTF-8 encodes in two bytes
EACUTE == "e_acute"
\* what unwrap_or('\0') yields past the last character
NUL == "NUL"

Digits == {"1"}
AsciiLetters == {"i", "f"}
Chars == Digits \cup AsciiLetters \cup {".", "_", QUOTE, NL, SPACE, EACUTE, "=", "/"}

Utf8Width(c) == IF c = EACUTE THEN 2 ELSE 1

\* char::is_digit(10)
is_digit(c) == c \in Digits

\* char::is_alphanumeric: Unicode letters and digits; '_' is neither
is_alphanumeric(c) == c \in Digits \cup AsciiLetters \cup {EACUTE}

\* ---------------------------------------------------- strings and slicing
RECURSIVE ByteLen(_)
\* String::len(): the length in bytes
ByteLen(s) == IF s = <<>> THEN 0 ELSE Utf8Width(Head(s)) + ByteLen(Tail(s))

\* byte offset at which the character of index i (0-based) starts
ByteOffset(s, i) == ByteLen(SubSeq(s, 1, i))

\* str::is_char_boundary
IsCharBoundary(s, b) == \E i \in 0..Len(s) : ByteOffset(s, i) = b

CharIndex(s, b) == CHOOSE i \in 0..Len(s) : ByteOffset(s, i) = b

\* &source[a..b]: a byte range; panics unless a <= b <= len and both ends
\* are character boundaries
ByteSlice(s, a, b) ==
    IF a <= b /\ IsCharBoundary(s, a) /\ IsCharBoundary(s, b)
    THEN [ok |-> TRUE, text |-> SubSeq(s, CharIndex(s, a) + 1, CharIndex(s, b))]
    ELSE [ok |-> FALSE, text |-> <<>>]

\* source.chars().nth(i).unwrap_or('\0')
CharAt(s, i) == IF i < Len(s) THEN s[i + 1] ELSE NUL

\* ------------------------------------------------------------------ tokens
NoPayload == <<>>

\* Token::new; the payload of TokenKind::String / TokenKind::Number is kept
\* beside the kind's name
Token(kind, payload, lexeme, line) ==
    [kind |-> kind, payload |-> payload, lexeme |-> lexeme, line |-> line]

RECURSIVE DecimalValue(_)
DecimalValue(ds) ==
    IF ds = <<>> THEN 0
    ELSE 10 * DecimalValue(SubSeq(ds, 1, Len(ds) - 1)) + (IF ds[Len(ds)] = "1" THEN 1 ELSE 0)

RECURSIVE StripZeros(_, _)
StripZeros(n, k) == IF k > 0 /\ n % 10 = 0 THEN StripZeros(n \div 10, k - 1) ELSE <<n, k>>

\* str::parse::<f32>() on a text over Chars: the accepted texts are digits with
\* at most one '.', and at least one digit (no sign, exponent, "inf" or "nan"
\* can be spelled with Chars).  The value is n / 10^k, exact for the short
\* literals the bounds allow.
ParseF32(text) ==
    LET dots == {i \in 1..Len(text) : text[i] = "."}
        ok == /\ \A i \in 1..Len(text) : text[i] \in Digits \cup {"."}
              /\ Cardinality(dots) <= 1
              /\ \E i \in 1..Len(text) : text[i] \in Digits
        digits == SelectSeq(text, LAMBDA c : c \in Digits)
        k == IF dots = {} THEN 0 ELSE Len(text) - (CHOOSE i \in dots : TRUE)
    IN  IF ok THEN [ok |-> TRUE, value |-> StripZeros(DecimalValue(digits), k)]
        ELSE [ok |-> FALSE, value |-> <<0, 0>>]

\* ------------------------------------------------------------- the scanner
\* Scanner::new
NewScanner(source) ==
    [source |-> source, tokens |-> <<>>, had_errors |-> FALSE,
     start |-> 0, current |-> 0, line |-> 1, panicked |-> FALSE]

peek(sc) == CharAt(sc.source, sc.current)

\* mutant: the second lookahead looks at the current character again
peek_next_as_peek(sc) == CharAt(sc.source, sc.current)

peek_next(sc) == CharAt(sc.source, sc.current + 1)

is_at_end(sc) == sc.current >= ByteLen(sc.source)

\* advance: the cursor moves on even when no character is left
advance(sc) == [sc EXCEPT !.current = @ + 1]

\* the character advance() returns when called on sc (NUL for None)
advanced_char(sc) == CharAt(sc.source, sc.current)

advance_if_matches(sc, expected) ==
    IF sc.current < Len(sc.source) /\ CharAt(sc.source, sc.current) = expected
    THEN [sc EXCEPT !.current = @ + 1]
    ELSE sc

error(sc) == [sc EXCEPT !.had_errors = TRUE]

\* a panic unwinds out of scan_tokens: nothing more is pushed
Panic(sc) == [sc EXCEPT !.panicked = TRUE]

add_token_with(sc, kind, payload) ==
    LET text_slice == ByteSlice(sc.source, sc.start, sc.current)
    IN  IF text_slice.ok
        THEN [sc EXCEPT !.tokens = Append(@, Token(kind, payload, text_slice.text, sc.line))]
        ELSE Panic(sc)

add_token(sc, kind) == add_token_with(sc, kind, NoPayload)

token_for(identifier_value) ==
    IF identifier_value = <<"i", "f">> THEN "If" ELSE "Identifier"

RECURSIVE identifier_loop(_)
identifier_loop(sc) ==
    IF is_alphanumeric(peek(sc)) THEN identifier_loop(advance(sc)) ELSE sc

identifier(sc0) ==
    LET sc == identifier_loop(sc0)
        identifier_value == ByteSlice(sc.source, sc.start, sc.current)
    IN  IF identifier_value.ok
        THEN add_token(sc, token_for(identifier_value.text))
        ELSE Panic(sc)

RECURSIVE digits_loop(_)
digits_loop(sc) == IF is_digit(peek(sc)) THEN digits_loop(advance(sc)) ELSE sc

number_literal(sc0) ==
    LET sc1 == digits_loop(sc0)
        sc == IF peek(sc1) = "." /\ is_digit(peek_next(sc1))
              THEN digits_loop(advance(sc1))
              ELSE sc1
        literal_value == ByteSlice(sc.source, sc.start, sc.current)
        double_value == ParseF32(literal_value.text)
    IN  IF literal_value.ok /\ double_value.ok
        THEN add_token_with(sc, "Number", double_value.value)
        ELSE Panic(sc)

RECURSIVE string_loop(_)
string_loop(sc) ==
    IF peek(sc) # QUOTE /\ ~is_at_end(sc)
    THEN string_loop(advance(IF peek(sc) = NL THEN [sc EXCEPT !.line = @ + 1] ELSE sc))
    ELSE sc

string_literal(sc0) ==
    LET sc1 == string_loop(sc0)
        sc == advance(sc1)
        literal_value == ByteSlice(sc.source, sc.start + 1, sc.current - 1)
    IN  IF is_at_end(sc1) THEN error(sc1)
        ELSE IF literal_value.ok THEN add_token_with(sc, "String", literal_value.text)
        ELSE Panic(sc)

RECURSIVE comment_loop(_)
comment_loop(sc) ==
    IF peek(sc) # NL /\ ~is_at_end(sc) THEN comment_loop(advance(sc)) ELSE sc

slash(sc) ==
    LET m == advance_if_matches(sc, "/")
    IN  IF m # sc THEN comment_loop(m) ELSE add_token(sc, "Slash")

one_or_two(sc, one, two) ==
    LET m == advance_if_matches(sc, "=")
    IN  add_token(m, IF m # sc THEN two ELSE one)

\* the arm of scan_token's match that the character c selects
Arm(c) ==
    CASE c = NUL -> "none"
      [] c = "." -> "single"
      [] c = "=" -> "one_or_two"
      [] c = "/" -> "slash"
      [] c = SPACE -> "whitespace"
      [] c = NL -> "newline"
      [] c = QUOTE -> "string"
      [] c \in Digits -> "number"
      [] c \in AsciiLetters \cup {"_"} -> "identifier"
      [] OTHER -> "unexpected"

scan_token(sc0) ==
    LET c == advanced_char(sc0)
        sc == advance(sc0)
    IN  CASE Arm(c) = "none" -> sc
          [] Arm(c) = "single" -> add_token(sc, "Dot")
          [] Arm(c) = "one_or_two" -> one_or_two(sc, "Equal", "EqualEqual")
          [] Arm(c) = "slash" -> slash(sc)
          [] Arm(c) = "whitespace" -> sc
          [] Arm(c) = "newline" -> [sc EXCEPT !.line = @ + 1]
          [] Arm(c) = "string" -> string_literal(sc)
          [] Arm(c) = "number" -> number_literal(sc)
          [] Arm(c) = "identifier" -> identifier(sc)
          [] OTHER -> error(sc)

EofToken(line) == Token("Eof", NoPayload, <<>>, line)

\* one iteration of the loop of scan_tokens
LoopBody(sc) == scan_token([sc EXCEPT !.start = sc.current])

\* scan_tokens as a whole, from the scanner sc on: the scanner it leaves behind
RECURSIVE scan_tokens(_)
scan_tokens(sc) ==
    IF sc.panicked THEN sc
    ELSE IF is_at_end(sc) THEN [sc EXCEPT !.tokens = Append(@, EofToken(sc.line))]
    ELSE scan_tokens(LoopBody(sc))

\* ------------------------------------------------------------- expressions
Literal(token) == [node |-> "Literal", token |-> token]

Unary(operator, right) == [node |-> "Unary", operator |-> operator, right |-> right]

Binary(left, operator, right) ==
    [node |-> "Binary", left |-> left, operator |-> operator, right |-> right]

Grouping(inner) == [node |-> "Grouping", inner |-> inner]

\* ------------------------------------------------------------------ parser
\* Parser::new
\* Parser::new.  Beside the fields of the struct, `trail` keeps the cursor's
\* positions (where it started, then where each call of advance left it) and
\* `panicked` tells that an unwrap() or an index subtraction has panicked.
NewParser(tokens) ==
    [tokens |-> tokens, current |-> 0, trail |-> <<0>>, panicked |-> FALSE]

\* a rule's outcome: the parser it leaves behind and the Result it returns
Ok(p, expr) == [p |-> p, r |-> [kind |-> "Ok", expr |-> expr]]

Err(p, e) == [p |-> p, r |-> [kind |-> "Err", error |-> e]]

IsErr(out) == out.r.kind = "Err"

p_peek(p) == p.tokens[p.current + 1]

\* previous: tokens.get(current - 1).unwrap(); there is no such token at current = 0
previous(p) == p.tokens[p.current]

p_is_at_end(p) == p_peek(p).kind = "Eof"

\* advance: the cursor stays on Eof
\* and the call of previous() that ends it panics when the cursor is still 0
p_advance(p) ==
    LET current == IF ~p_is_at_end(p) THEN p.current + 1 ELSE p.current
    IN  [p EXCEPT !.current = current,
                  !.trail = Append(@, current),
                  !.panicked = @ \/ current = 0]

\* mutant: consume advances whatever the current token is
consume_unchecked(p, kind) == p_advance(p)

\* consume: the parser after the call; it has moved iff Some was returned
consume(p, kind) == IF p_peek(p).kind = kind THEN p_advance(p) ELSE p

consumed(p, kind) == p_peek(p).kind = kind

match_any_of(p, kinds) == p_peek(p).kind \in kinds

EqualityOps == {"BangEqual", "EqualEqual"}
ComparisonOps == {"Greater", "GreaterEqual", "Less", "LessEqual"}
AdditionOps == {"Plus", "Minus"}
MultiplicationOps == {"Star", "Slash"}
\* mutant: a unary plus is accepted
UnaryOpsWithPlus == {"Bang", "Minus", "Plus"}

UnaryOps == {"Bang", "Minus"}
KeywordLiterals == {"False", "True", "Nil"}
ValueLiterals == {"Number", "String"}

\* mutant: the operands of an addition are parsed by unary, as if "*" and "/"
\* bound no tighter than "+" and "-"
OperandFlat(rule) ==
    CASE rule = "equality" -> "comparison"
      [] rule = "comparison" -> "addition"
      [] rule = "addition" -> "unary"
      [] rule = "multiplication" -> "unary"

\* the operators a binary rule folds, and the rule that parses its operands
RuleOps(rule) ==
    CASE rule = "equality" -> EqualityOps
      [] rule = "comparison" -> ComparisonOps
      [] rule = "addition" -> AdditionOps
      [] rule = "multiplication" -> MultiplicationOps

Operand(rule) ==
    CASE rule = "equality" -> "comparison"
      [] rule = "comparison" -> "addition"
      [] rule = "addition" -> "multiplication"
      [] rule = "multiplication" -> "unary"

BinaryRules == {"equality", "comparison", "addition", "multiplication"}

NoExpr == [node |-> "none"]

\* The grammar's functions, as one recursive operator: descend(rule, FALSE, p, _)
\* is the function `rule` called on the parser p, and descend(rule, TRUE, p, left)
\* is the while loop of the binary rule `rule`, entered with expr = left.  A `?`
\* returns the Err it is applied to, with the parser as the failure left it.
RECURSIVE descend(_, _, _, _)
descend(rule, in_loop, p, left) ==
    CASE rule = "expression" -> descend("equality", FALSE, p, NoExpr)
      [] rule \in BinaryRules /\ ~in_loop ->
            LET expr == descend(Operand(rule), FALSE, p, NoExpr)
            IN  IF IsErr(expr) THEN expr ELSE descend(rule, TRUE, expr.p, expr.r.expr)
      [] rule \in BinaryRules /\ in_loop ->
            IF match_any_of(p, RuleOps(rule)) THEN
                LET p1 == p_advance(p)
                    operator == previous(p1)
                    right == descend(Operand(rule), FALSE, p1, NoExpr)
                IN  IF IsErr(right) THEN right
                    ELSE descend(rule, TRUE, right.p, Binary(left, operator, right.r.expr))
            ELSE Ok(p, left)
      [] rule = "unary" ->
            IF p_peek(p).kind \in UnaryOps THEN
                LET p1 == p_advance(p)
                    operator == previous(p1)
                    right == descend("unary", FALSE, p1, NoExpr)
                IN  IF IsErr(right) THEN right
                    ELSE Ok(right.p, Unary(operator, right.r.expr))
            ELSE descend("primary", FALSE, p, NoExpr)
      [] rule = "primary" ->
            IF p_peek(p).kind \in KeywordLiterals THEN
                LET p1 == p_advance(p) IN Ok(p1, Literal(previous(p1)))
            ELSE IF p_peek(p).kind \in ValueLiterals THEN
                LET p1 == p_advance(p) IN Ok(p1, Literal(previous(p1)))
            ELSE IF p_peek(p).kind = "LeftParen" THEN
                LET expr == descend("expression", FALSE, p_advance(p), NoExpr)
                IN  IF IsErr(expr) THEN expr
                    ELSE IF consumed(expr.p, "RightParen")
                    THEN Ok(consume(expr.p, "RightParen"), Grouping(expr.r.expr))
                    ELSE Err(consume(expr.p, "RightParen"), "MissingParenthesis")
            ELSE Err(p, "UnexpectedToken")

expression(p) == descend("expression", FALSE, p, NoExpr)

\* mutant: parse rejects an expression that is not followed by Eof
parse_to_eof(p) ==
    LET out == expression(p)
    IN  IF ~IsErr(out) /\ ~p_is_at_end(out.p) THEN Err(out.p, "UnexpectedToken") ELSE out

\* Parser::parse
parse(p) == expression(p)

StatementStarts == {"Class", "Fun", "Var", "For", "If", "While", "Print", "Return"}

RECURSIVE synchronize_loop(_)
synchronize_loop(p) ==
    IF p_is_at_end(p) THEN p
    ELSE IF previous(p).kind = "SemiColon" THEN p
    ELSE IF p_peek(p).kind \in StatementStarts THEN p
    ELSE synchronize_loop(p_advance(p))

\* Parser::synchronize: the parser it leaves behind
synchronize(p) ==
    LET p1 == p_advance(p)
    IN  IF p1.panicked THEN p1 ELSE synchronize_loop(p1)

NoParser == NewParser(<<>>)
NoResult == [kind |-> "none"]

\* ------------------------------------------------------------- scan actions
Init ==
    /\ \E n \in 0..MaxLen : \E source \in [1..n -> Chars] : scanner = NewScanner(source)
    /\ pc = "scanning"
    /\ parser = NoParser
    /\ result = NoResult

\* the loop of scan_tokens runs once more, and its character selects arm
AtArm(arm) ==
    /\ pc = "scanning"
    /\ ~is_at_end(scanner)
    /\ Arm(peek(scanner)) = arm

Continue ==
    /\ pc' = IF scanner'.panicked THEN "panicked" ELSE "scanning"
    /\ UNCHANGED <<parser, result>>

ScanSingle ==
    /\ AtArm("single")
    /\ scanner' = LoopBody(scanner)
    /\ Continue

ScanOneOrTwo ==
    /\ AtArm("one_or_two")
    /\ scanner' = LoopBody(scanner)
    /\ Continue

ScanSlash ==
    /\ AtArm("slash")
    /\ scanner' = LoopBody(scanner)
    /\ Continue

ScanWhitespace ==
    /\ AtArm("whitespace")
    /\ scanner' = LoopBody(scanner)
    /\ Continue

ScanNewline ==
    /\ AtArm("newline")
    /\ scanner' = LoopBody(scanner)
    /\ Continue

ScanString ==
    /\ AtArm("string")
    /\ scanner' = LoopBody(scanner)
    /\ Continue

ScanNumber ==
    /\ AtArm("number")
    /\ scanner' = LoopBody(scanner)
    /\ Continue

ScanIdentifier ==
    /\ AtArm("identifier")
    /\ scanner' = LoopBody(scanner)
    /\ Continue

ScanUnexpected ==
    /\ AtArm("unexpected")
    /\ scanner' = LoopBody(scanner)
    /\ Continue

\* advance() returned None: the characters are exhausted, the bytes are not
ScanNone ==
    /\ AtArm("none")
    /\ scanner' = LoopBody(scanner)
    /\ Continue

\* mutant: scan_tokens returns without pushing Eof
ScanEofForgotten ==
    /\ pc = "scanning"
    /\ is_at_end(scanner)
    /\ scanner' = scanner
    /\ pc' = "returned"
    /\ UNCHANGED <<parser, result>>

\* the loop of scan_tokens has ended: Eof is pushed and scan_tokens returns
ScanEof ==
    /\ pc = "scanning"
    /\ is_at_end(scanner)
    /\ scanner' = [scanner EXCEPT !.tokens = Append(@, EofToken(scanner.line))]
    /\ pc' = "returned"
    /\ UNCHANGED <<parser, result>>

Next ==
    \/ ScanSingle
    \/ ScanOneOrTwo
    \/ ScanSlash
    \/ ScanWhitespace
    \/ ScanNewline
    \/ ScanString
    \/ ScanNumber
    \/ ScanIdentifier
    \/ ScanUnexpected
    \/ ScanNone
    \/ ScanEof

Spec == Init /\ [][Next]_vars

\* ------------------------------------------------------------ parse actions
MaxTokens == 5

ParserKinds ==
    {"Number", "Nil", "Plus", "Minus", "Star", "Bang", "EqualEqual", "Less",
     "LeftParen", "RightParen"}

LexemeOf(kind) ==
    CASE kind = "Nil" -> <<"n", "i", "l">>
      [] kind = "SemiColon" -> <<";">>
      [] kind = "Var" -> <<"v", "a", "r">>
      [] kind = "Return" -> <<"r", "e", "t", "u", "r", "n">>
      [] kind = "Plus" -> <<"+">>
      [] kind = "Minus" -> <<"-">>
      [] kind = "Star" -> <<"*">>
      [] kind = "Bang" -> <<"!">>
      [] kind = "EqualEqual" -> <<"=", "=">>
      [] kind = "Less" -> <<"<">>
      [] kind = "LeftParen" -> <<"(">>
      [] kind = "RightParen" -> <<")">>

\* the token of kind `kind` at place i of a one-line source; the i-th token,
\* when a number, is the literal i, so that operands can be told apart
TokenAt(kind, i) ==
    IF kind = "Number" THEN Token("Number", <<i, 0>>, <<ToString(i)>>, 1)
    ELSE Token(kind, NoPayload, LexemeOf(kind), 1)

\* the token sequences scan_tokens hands to Parser::new: they end in Eof
TokensOf(ks) ==
    [i \in 1..(Len(ks) + 1) |-> IF i <= Len(ks) THEN TokenAt(ks[i], i) ELSE EofToken(1)]

ParserInit ==
    /\ \E n \in 0..MaxTokens : \E ks \in [1..n -> ParserKinds] :
          parser = NewParser(TokensOf(ks))
    /\ pc = "parsing"
    /\ scanner = NewScanner(<<>>)
    /\ result = NoResult

Parse ==
    /\ pc = "parsing"
    /\ LET out == parse(parser)
       IN  /\ parser' = out.p
           /\ result' = out.r
    /\ pc' = "parsed"
    /\ UNCHANGED scanner

ParserNext == Parse

ParserSpec == ParserInit /\ [][ParserNext]_vars

\* ------------------------------------------------------ synchronize actions
SyncKinds == {"SemiColon", "Var", "Return", "Number", "Plus"}

\* a parser over a token sequence that ends in Eof, with its cursor on any token
SyncInit ==
    /\ \E n \in 0..MaxTokens : \E ks \in [1..n -> SyncKinds] : \E at \in 0..n :
          parser = [NewParser(TokensOf(ks)) EXCEPT !.current = at, !.trail = <<at>>]
    /\ pc = "recovering"
    /\ scanner = NewScanner(<<>>)
    /\ result = NoResult

Synchronize ==
    /\ pc = "recovering"
    /\ parser' = synchronize(parser)
    /\ pc' = IF parser'.panicked THEN "panicked" ELSE "synchronized"
    /\ UNCHANGED <<scanner, result>>

SyncNext == Synchronize

SyncSpec == SyncInit /\ [][SyncNext]_vars

\* ================================================================== claims
Tokens == scanner.tokens
Source == scanner.source

\* C1: after scan_tokens returns, the token sequence is non-empty, its last
\* element is Eof with an empty lexeme, and no other element is Eof.
C1_EofLastAndOnlyLast ==
    pc = "returned" =>
        /\ Tokens # <<>>
        /\ Tokens[Len(Tokens)].kind = "Eof"
        /\ Tokens[Len(Tokens)].lexeme = <<>>
        /\ \A i \in 1..(Len(Tokens) - 1) : Tokens[i].kind # "Eof"

\* a scan with lexical errors and tokens has returned
C1_Witness ==
    /\ pc = "returned"
    /\ scanner.had_errors
    /\ Len(Tokens) >= 3

\* ------------------------------------------------ the grammar, as a reference
GrammarLiterals == {"Number", "String", "False", "True", "Nil"}
GrammarUnary == {"Bang", "Minus"}

\* the precedence level of a binary operator: 1 binds loosest
OpLevel(kind) ==
    CASE kind \in {"BangEqual", "EqualEqual"} -> 1
      [] kind \in {"Greater", "GreaterEqual", "Less", "LessEqual"} -> 2
      [] kind \in {"Plus", "Minus"} -> 3
      [] kind \in {"Star", "Slash"} -> 4
      [] OTHER -> 0

GrammarBinary == {"BangEqual", "EqualEqual", "Greater", "GreaterEqual", "Less",
                  "LessEqual", "Plus", "Minus", "Star", "Slash"}

\* Reading the tokens from place i on, with `depth` parentheses open, where the
\* grammar wants an operand (want = TRUE) or an operator: how the sentence
\* ends, and the place of the token that ends it.
RECURSIVE Sentence(_, _, _, _)
Sentence(toks, i, depth, want) ==
    LET k == toks[i].kind
    IN  IF want THEN
            IF k \in GrammarUnary THEN Sentence(toks, i + 1, depth, TRUE)
            ELSE IF k = "LeftParen" THEN Sentence(toks, i + 1, depth + 1, TRUE)
            ELSE IF k \in GrammarLiterals THEN Sentence(toks, i + 1, depth, FALSE)
            ELSE [ends |-> "UnexpectedToken", at |-> i]
        ELSE
            IF k \in GrammarBinary THEN Sentence(toks, i + 1, depth, TRUE)
            ELSE IF k = "RightParen" /\ depth > 0 THEN Sentence(toks, i + 1, depth - 1, FALSE)
            ELSE IF depth > 0 THEN [ends |-> "MissingParenthesis", at |-> i]
            ELSE [ends |-> "Ok", at |-> i]

Read == Sentence(parser.tokens, 1, 0, TRUE)

\* the level of the rule that derives a node: 5 is unary, 6 is primary
NodeLevel(e) ==
    CASE e.node = "Binary" -> OpLevel(e.operator.kind)
      [] e.node = "Unary" -> 5
      [] OTHER -> 6

\* e is a tree of the grammar: each operand comes from the rule the grammar names
RECURSIVE Derived(_)
Derived(e) ==
    CASE e.node = "Literal" -> e.token.kind \in GrammarLiterals
      [] e.node = "Grouping" -> Derived(e.inner)
      [] e.node = "Unary" ->
            /\ e.operator.kind \in GrammarUnary
            /\ Derived(e.right)
            /\ NodeLevel(e.right) >= 5
      [] e.node = "Binary" ->
            /\ OpLevel(e.operator.kind) >= 1
            /\ Derived(e.left)
            /\ Derived(e.right)
            /\ NodeLevel(e.left) >= OpLevel(e.operator.kind)
            /\ NodeLevel(e.right) > OpLevel(e.operator.kind)
      [] OTHER -> FALSE

\* the tokens a tree spells, left to right
RECURSIVE Yield(_)
Yield(e) ==
    CASE e.node = "Literal" -> <<e.token>>
      [] e.node = "Grouping" ->
            <<TokenAt("LeftParen", 0)>> \o Yield(e.inner) \o <<TokenAt("RightParen", 0)>>
      [] e.node = "Unary" -> <<e.operator>> \o Yield(e.right)
      [] e.node = "Binary" -> Yield(e.left) \o <<e.operator>> \o Yield(e.right)

KindsOf(toks) == [i \in 1..Len(toks) |-> toks[i].kind]

\* C2: a token sequence that spells a well-formed expression parses to Ok with
\* the tree the grammar defines: the tree is derived by the grammar's rules
\* (same-level operators nest to the left, a tighter level sits below a looser
\* one, unary operators nest to the right, parentheses stay as Grouping) and
\* spells exactly the tokens before Eof; `3 + 4` is Binary(Literal, Plus, Literal).
C2_ParsesToGrammarTree ==
    (pc = "parsed" /\ Read.ends = "Ok" /\ parser.tokens[Read.at].kind = "Eof") =>
        /\ result.kind = "Ok"
        /\ Derived(result.expr)
        /\ Yield(result.expr) = SubSeq(parser.tokens, 1, Len(parser.tokens) - 1)
        /\ KindsOf(parser.tokens) = <<"Number", "Plus", "Number", "Eof">> =>
              result.expr = Binary(Literal(parser.tokens[1]), parser.tokens[2],
                                   Literal(parser.tokens[3]))

\* `a - b * c`-like input has parsed: a looser operator above a tighter one
C2_Witness ==
    /\ pc = "parsed"
    /\ Read.ends = "Ok"
    /\ parser.tokens[Read.at].kind = "Eof"
    /\ result.kind = "Ok"
    /\ result.expr.node = "Binary"
    /\ result.expr.right.node = "Binary"

\* C3: when the grammar wants an operand and the current token starts none
\* (Eof included), parse returns Err(UnexpectedToken) and no tree, with the
\* cursor on that token; `-` alone and `3 +` are such inputs.
C3_UnexpectedToken ==
    (pc = "parsed" /\ Read.ends = "UnexpectedToken") =>
        /\ result = [kind |-> "Err", error |-> "UnexpectedToken"]
        /\ parser.current = Read.at - 1

\* an operand is missing inside parentheses, with the cursor not on Eof
C3_Witness ==
    /\ pc = "parsed"
    /\ Read.ends = "UnexpectedToken"
    /\ result = [kind |-> "Err", error |-> "UnexpectedToken"]
    /\ parser.current >= 3
    /\ parser.tokens[parser.current + 1].kind = "RightParen"

\* C4: when a `(` was consumed, its sub-expression parsed, and the current
\* token is not `)` (Eof included), parse returns Err(MissingParenthesis) and
\* no tree, and the cursor stays on the token that is not `)`.
C4_MissingParenthesis ==
    (pc = "parsed" /\ Read.ends = "MissingParenthesis") =>
        /\ result = [kind |-> "Err", error |-> "MissingParenthesis"]
        /\ parser.current = Read.at - 1
        /\ parser.tokens[parser.current + 1].kind # "RightParen"

\* a parenthesis is left open before a token that is neither `)` nor Eof
C4_Witness ==
    /\ pc = "parsed"
    /\ result = [kind |-> "Err", error |-> "MissingParenthesis"]
    /\ parser.tokens[parser.current + 1].kind \notin {"RightParen", "Eof"}

\* ------------------------------------------------- the lexical rules, by text
\* every character of s is encoded in one byte
OneByteChars(s) == \A i \in 1..Len(s) : Utf8Width(s[i]) = 1

\* the index (0-based) of the first character from i on that is not in S
RECURSIVE RunEnd(_, _, _)
RunEnd(s, i, S) == IF i < Len(s) /\ s[i + 1] \in S THEN RunEnd(s, i + 1, S) ELSE i

\* letters, digits and the underscore
WordChars == AsciiLetters \cup {EACUTE} \cup Digits \cup {"_"}

LastToken(sc) == sc.tokens[Len(sc.tokens)]

Emits == Len(scanner'.tokens) = Len(scanner.tokens) + 1

\* C5: from a letter or an underscore the scanner consumes the maximal run of
\* letters, digits and underscores and emits one token for the whole run: the
\* keyword if the run is a reserved word, else Identifier.  Stated for sources
\* of one-byte characters.
C5_IdentifierIsMaximalRun ==
    [][(AtArm("identifier") /\ OneByteChars(Source)) =>
        LET end == RunEnd(Source, scanner.current, WordChars)
            text == SubSeq(Source, scanner.current + 1, end)
            kind == IF text = <<"i", "f">> THEN "If" ELSE "Identifier"
        IN  /\ scanner'.current = end
            /\ scanner'.tokens = Append(Tokens, Token(kind, NoPayload, text, scanner.line))
      ]_vars

\* the number of newlines among the first i characters of s
NewlinesBefore(s, i) == Cardinality({j \in 1..i : s[j] = NL})

\* C6: every token carries the line on which it starts, 1 plus the newlines
\* before its first character (Eof: before the end of input), a multi-line
\* String included, and lines never decrease along the tokens.  Stated for
\* sources of one-byte characters.
C6_LineIsStartLine ==
    [][(OneByteChars(Source) /\ Emits) =>
        LET t == LastToken(scanner')
            first == IF t.kind = "Eof" THEN Len(Source) ELSE scanner'.start
        IN  /\ t.line = 1 + NewlinesBefore(Source, first)
            /\ Tokens # <<>> => LastToken(scanner).line <= t.line
      ]_vars

\* the place (1-based) of the first character at or after i that is c, or
\* Len(s) + 1
RECURSIVE Find(_, _, _)
Find(s, i, c) == IF i > Len(s) \/ s[i] = c THEN i ELSE Find(s, i + 1, c)

\* the place of the quote that opens a string literal never closed, reading
\* from place i on (a comment runs to the end of its line, a string to its
\* closing quote); 0 when there is none
RECURSIVE OpenQuote(_, _)
OpenQuote(s, i) ==
    IF i > Len(s) THEN 0
    ELSE IF s[i] = "/" /\ i < Len(s) /\ s[i + 1] = "/" THEN OpenQuote(s, Find(s, i, NL))
    ELSE IF s[i] = QUOTE THEN
        IF Find(s, i + 1, QUOTE) > Len(s) THEN i
        ELSE OpenQuote(s, Find(s, i + 1, QUOTE) + 1)
    ELSE OpenQuote(s, i + 1)

\* the tokens scan_tokens emits, without the final Eof, for the text s
TokensBeforeEof(s) ==
    LET toks == scan_tokens(NewScanner(s)).tokens
    IN  SubSeq(toks, 1, Len(toks) - 1)

\* C7: when a quote opens a string that is not closed before the end of input,
\* scan_tokens sets had_errors, emits no token for the unterminated lexeme,
\* leaves the tokens emitted before the quote as they are, and still ends
\* with a final Eof.
C7_UnterminatedString ==
    OpenQuote(Source, 1) > 0 =>
        /\ pc # "panicked"
        /\ pc = "returned" =>
              /\ scanner.had_errors
              /\ LastToken(scanner).kind = "Eof"
              /\ SubSeq(Tokens, 1, Len(Tokens) - 1) =
                     TokensBeforeEof(SubSeq(Source, 1, OpenQuote(Source, 1) - 1))

\* C8: every emitted token's lexeme is the source text from the token's first
\* character through its last, and a String's payload is the text strictly
\* between its quotes, in every source, multi-byte characters included.
C8_LexemeIsSourceSpan ==
    [][(Emits /\ pc' = "scanning") =>
        LET t == LastToken(scanner')
        IN  /\ t.lexeme = SubSeq(Source, scanner'.start + 1, scanner'.current)
            /\ t.kind = "String" =>
                  t.payload = SubSeq(Source, scanner'.start + 2, scanner'.current - 1)
      ]_vars

\* characters that begin no string, comment or identifier: in a text of these
\* and EACUTE, every EACUTE reaches the `_` arm of scan_token
PlainChars == Digits \cup {".", "=", SPACE, NL}

\* s with the characters that match no dispatch rule replaced by spaces
Blanked(s) == [i \in 1..Len(s) |-> IF Arm(s[i]) = "unexpected" THEN SPACE ELSE s[i]]

\* C9: a character that matches no dispatch rule sets had_errors and yields no
\* token; with any number of them (multi-byte ones included) scan_tokens runs
\* to the end of input without aborting and emits the tokens of the same
\* source with those characters replaced by spaces.
C9_UnexpectedCharsAreSkipped ==
    (\A i \in 1..Len(Source) : Source[i] \in PlainChars \cup {EACUTE}) =>
        /\ pc # "panicked"
        /\ pc = "returned" =>
              /\ Tokens = scan_tokens(NewScanner(Blanked(Source))).tokens
              /\ scanner.had_errors <=> (\E i \in 1..Len(Source) : Source[i] = EACUTE)

\* where the number literal that starts at index i (0-based) ends
NumberEnd(s, i) ==
    LET j == RunEnd(s, i, Digits)
    IN  IF CharAt(s, j) = "." /\ CharAt(s, j + 1) \in Digits
        THEN RunEnd(s, j + 1, Digits)
        ELSE j

ScansTo(source, kinds) ==
    (pc = "returned" /\ Source = source) => KindsOf(Tokens) = kinds

StartedAt == parser.trail[1]

EofAt == Len(parser.tokens) - 1

\* C11: called with the cursor on any token of a sequence that ends in Eof
\* (place 0 and an Eof-only sequence included), synchronize returns without an
\* out-of-range token access; on return the token just before the cursor is
\* `;`, or the current token is one of class, fun, var, for, if, while, print,
\* return, or it is Eof; the cursor has advanced by at least one token unless
\* it started on Eof, and it is not past Eof.  (The three outcomes are read
\* here as alternatives that may hold together.)
C11_SynchronizeIsSafe ==
    /\ pc # "panicked"
    /\ pc = "synchronized" =>
          /\ \/ (parser.current > 0 /\ previous(parser).kind = "SemiColon")
             \/ p_peek(parser).kind \in StatementStarts
             \/ p_peek(parser).kind = "Eof"
          /\ parser.current <= EofAt
          /\ StartedAt < EofAt => parser.current > StartedAt
          /\ StartedAt = EofAt => parser.current = StartedAt

\* C12: parse does not require the expression to end at Eof.  Throughout a
\* parse the cursor only moves forward, one token for each token consumed, and
\* never passes Eof; parse returns Ok exactly when the tokens begin with a
\* complete expression, and then the cursor rests on the first token that does
\* not continue it (any token, not only Eof), the tree spells the tokens
\* before the cursor, and the tokens after it raise no error: `3 4` gives
\* Ok(Literal(3)) with the cursor on `4`, and `3 )` gives Ok(Literal(3)).
C12_StopsAfterExpression ==
    pc = "parsed" =>
        /\ ~parser.panicked
        /\ StartedAt = 0
        /\ \A i \in 2..Len(parser.trail) : parser.trail[i] = parser.trail[i - 1] + 1
        /\ parser.current = parser.trail[Len(parser.trail)]
        /\ parser.current <= EofAt
        /\ result.kind = "Ok" <=> Read.ends = "Ok"
        /\ result.kind = "Ok" =>
              /\ parser.current = Read.at - 1
              /\ Derived(result.expr)
              /\ Yield(result.expr) = SubSeq(parser.tokens, 1, parser.current)
        /\ KindsOf(parser.tokens) = <<"Number", "Number", "Eof">> =>
              /\ result = [kind |-> "Ok", expr |-> Literal(parser.tokens[1])]
              /\ parser.current = 1
        /\ KindsOf(parser.tokens) = <<"Number", "RightParen", "Eof">> =>
              result = [kind |-> "Ok", expr |-> Literal(parser.tokens[1])]

\* parse has returned Ok for `a + b` with the cursor on a following `(`
C12_Witness ==
    /\ pc = "parsed"
    /\ result.kind = "Ok"
    /\ result.expr.node = "Binary"
    /\ parser.current = 3
    /\ p_peek(parser).kind = "LeftParen"
    /\ EofAt = 5

====
